---- MODULE Spec2Model ----
(***************************************************************************)
(* Terminal Tamagotchi (Tamagotchi/tamagotchi.py): the pet record, the     *)
(* engine operations that mutate it, and the driver loop run_game with its *)
(* save file.                                                              *)
(*                                                                         *)
(* A line of terminal input is a tuple of one-character strings.  The save *)
(* file is NoFile, Corrupt (bytes json.load rejects) or the JSON text      *)
(* json.dump wrote, held as its sequence of <<key, token>> members.        *)
(***************************************************************************)
EXTENDS Integers, Sequences, FiniteSets, TLC

VARIABLES
    pc,     \* where run_game is: "start", "loop", "exited", "done", "crashed" (an
            \* exception left run_game); "engine", "call", "prompt", "prompted" when
            \* functions are called directly
    pet,    \* the pet dict (NoPet before run_game has made or loaded one)
    disk,   \* contents of SAVE_PATH
    last,   \* what the last step was: the action token of the last loop iteration
    used,   \* how many budgeted inputs (or direct engine calls) were made so far
    given,  \* the argument a sequence of direct function calls started from
    calls,  \* the names of the functions called on it since, in order
    ret,    \* what the last direct call returned, for a function that returns a value
    starved \* history: how many loop iterations of run_game so far ran
            \* check_health_drain on a pet with hunger 0

vars == <<pc, pet, disk, last, used, given, calls, ret, starved>>

\* what only the direct function calls of FnSpec write
args == <<given, calls, ret>>

----------------------------------------------------------------------------
(* Bounds of the model *)

\* feed / play / sleep / save inputs the player makes in one session
\* (check and quit are not counted)
MaxInputs == 2

\* direct calls of single engine operations in EngineSpec
MaxOps == 3

\* direct calls in one sequence of FnSpec
MaxCalls == 4

----------------------------------------------------------------------------
(* Constants of the program *)

DECAY == [hunger |-> 5, energy |-> 4, happiness |-> 2]

DefaultName == <<"P", "i", "p">>

NoPet == [none |-> TRUE]
NoFile == <<"ENOENT">>
Corrupt == <<"not json">>

\* a save file holding the JSON text {}: an object with no members
EmptyObject == <<>>

----------------------------------------------------------------------------
(* Utilities *)

\* clamp with the lower bound forgotten: min(hi, value)
clamp_no_floor(value, lo, hi) == IF hi < value THEN hi ELSE value

\* max(lo, min(hi, value))
clamp(value, lo, hi) ==
    LET m == IF hi < value THEN hi ELSE value
    IN  IF lo > m THEN lo ELSE m

make_pet(name) ==
    [ name                  |-> name,
      hunger                |-> 80,
      happiness             |-> 80,
      energy                |-> 80,
      health                |-> 100,
      turn                  |-> 1,
      alive                 |-> TRUE,
      sleeping              |-> FALSE,
      sleep_turns_remaining |-> 0 ]

----------------------------------------------------------------------------
(* Stat logic *)

\* decay_stats without the clamp
decay_stats_unclamped(p) ==
    [p EXCEPT !.hunger    = @ - DECAY.hunger,
              !.energy    = @ - DECAY.energy,
              !.happiness = @ - DECAY.happiness]

\* decay_stats with the amounts of energy and happiness exchanged
decay_stats_exchanged(p) ==
    [p EXCEPT !.hunger    = clamp(@ - DECAY.hunger, 0, 100),
              !.energy    = clamp(@ - DECAY.happiness, 0, 100),
              !.happiness = clamp(@ - DECAY.energy, 0, 100)]

decay_stats(p) ==
    [p EXCEPT !.hunger    = clamp(@ - DECAY.hunger, 0, 100),
              !.energy    = clamp(@ - DECAY.energy, 0, 100),
              !.happiness = clamp(@ - DECAY.happiness, 0, 100)]

\* check_health_drain draining a starving pet once only, from full health
check_health_drain_once(p) ==
    IF p.hunger = 0 /\ p.health = 100
    THEN [p EXCEPT !.health = clamp(@ - 10, 0, 100)]
    ELSE p

\* check_health_drain taking health from hunger 5 down
check_health_drain_from_five(p) ==
    IF p.hunger <= 5
    THEN [p EXCEPT !.health = clamp(@ - 10, 0, 100)]
    ELSE p

check_health_drain(p) ==
    IF p.hunger = 0
    THEN [p EXCEPT !.health = clamp(@ - 10, 0, 100)]
    ELSE p

\* check_death testing health < 0
check_death_strict(p) ==
    IF p.health < 0 THEN [p EXCEPT !.alive = FALSE] ELSE p

check_death(p) ==
    IF p.health <= 0 THEN [p EXCEPT !.alive = FALSE] ELSE p

----------------------------------------------------------------------------
(* Actions on the pet *)

\* apply_feed without the clamp
apply_feed_unclamped(p) ==
    [p EXCEPT !.hunger = @ + 30]

\* apply_feed giving back 10 health with the food
apply_feed_heals(p) ==
    [p EXCEPT !.hunger = clamp(@ + 30, 0, 100),
              !.health = clamp(@ + 10, 0, 100)]

apply_feed(p) ==
    [p EXCEPT !.hunger = clamp(@ + 30, 0, 100)]

\* apply_play refusing a pet too tired to play
apply_play_rested_only(p) ==
    IF p.energy < 15 THEN p
    ELSE [p EXCEPT !.happiness = clamp(@ + 20, 0, 100),
                   !.energy    = clamp(@ - 15, 0, 100)]

apply_play(p) ==
    [p EXCEPT !.happiness = clamp(@ + 20, 0, 100),
              !.energy    = clamp(@ - 15, 0, 100)]

\* start_sleep leaving a pet that sleeps already as it is
start_sleep_if_awake(p) ==
    IF p.sleeping THEN p
    ELSE [p EXCEPT !.sleeping = TRUE, !.sleep_turns_remaining = 3]

\* start_sleep counting four turns
start_sleep_four(p) ==
    [p EXCEPT !.sleeping = TRUE, !.sleep_turns_remaining = 4]

start_sleep(p) ==
    [p EXCEPT !.sleeping = TRUE, !.sleep_turns_remaining = 3]

\* process_sleep_turn without the clamp of energy
process_sleep_turn_unclamped(p) ==
    LET q == [p EXCEPT !.energy = @ + 25,
                       !.sleep_turns_remaining = @ - 1]
    IN  IF q.sleep_turns_remaining <= 0
        THEN [q EXCEPT !.sleeping = FALSE, !.sleep_turns_remaining = 0]
        ELSE q

\* process_sleep_turn waking only below 0
process_sleep_turn_late(p) ==
    LET q == [p EXCEPT !.energy = clamp(@ + 25, 0, 100),
                       !.sleep_turns_remaining = @ - 1]
    IN  IF q.sleep_turns_remaining < 0
        THEN [q EXCEPT !.sleeping = FALSE, !.sleep_turns_remaining = 0]
        ELSE q

\* process_sleep_turn waking the pet with one turn of sleep still to count
process_sleep_turn_wakes_early(p) ==
    LET q == [p EXCEPT !.energy = clamp(@ + 25, 0, 100),
                       !.sleep_turns_remaining = @ - 1]
    IN  IF q.sleep_turns_remaining <= 1
        THEN [q EXCEPT !.sleeping = FALSE]
        ELSE q

process_sleep_turn(p) ==
    LET q == [p EXCEPT !.energy = clamp(@ + 25, 0, 100),
                       !.sleep_turns_remaining = @ - 1]
    IN  IF q.sleep_turns_remaining <= 0
        THEN [q EXCEPT !.sleeping = FALSE, !.sleep_turns_remaining = 0]
        ELSE q

\* get_mood with the sad thresholds taken inclusive
get_mood_inclusive(p) ==
    IF p.sleeping THEN "sleeping"
    ELSE IF p.hunger >= 50 /\ p.happiness >= 50 /\ p.energy >= 30 THEN "happy"
    ELSE IF p.hunger <= 25 \/ p.happiness <= 25 \/ p.energy <= 20 THEN "sad"
    ELSE "neutral"

\* get_mood calling a pet happy when any one of the three stats is high
get_mood_any_happy(p) ==
    IF p.sleeping THEN "sleeping"
    ELSE IF p.hunger >= 50 \/ p.happiness >= 50 \/ p.energy >= 30 THEN "happy"
    ELSE IF p.hunger < 25 \/ p.happiness < 25 \/ p.energy < 20 THEN "sad"
    ELSE "neutral"

get_mood(p) ==
    IF p.sleeping THEN "sleeping"
    ELSE IF p.hunger >= 50 /\ p.happiness >= 50 /\ p.energy >= 30 THEN "happy"
    ELSE IF p.hunger < 25 \/ p.happiness < 25 \/ p.energy < 20 THEN "sad"
    ELSE "neutral"

----------------------------------------------------------------------------
(* Save / Load *)

\* json.dump of one member's value: the name, a str, as a string; alive and
\* sleeping, bools, as true / false; the other values, ints, as numbers
json_token(k, v) ==
    IF k = "name" THEN [t |-> "string", v |-> v]
    ELSE IF k \in {"alive", "sleeping"}
         THEN [t |-> "literal", v |-> IF v THEN "true" ELSE "false"]
    ELSE [t |-> "number", v |-> v]

\* json.load reading Python's spelling of the bools instead of JSON's
json_value_capitalised(tok) ==
    IF tok.t = "literal" THEN tok.v = "True" ELSE tok.v

\* json.load of one value
json_value(tok) ==
    IF tok.t = "literal" THEN tok.v = "true" ELSE tok.v

Keys == << "name", "hunger", "happiness", "energy", "health", "turn",
           "alive", "sleeping", "sleep_turns_remaining" >>

\* json.dump(pet): the members of the object, in the dict's insertion order
json_dump(p) == [i \in DOMAIN Keys |-> <<Keys[i], json_token(Keys[i], p[Keys[i]])>>]

\* json.load: a dict with the members' keys (a repeated key keeps its last value)
json_load(text) ==
    [k \in {text[i][1] : i \in DOMAIN text} |->
        LET i == CHOOSE i \in DOMAIN text :
                    /\ text[i][1] = k
                    /\ \A j \in DOMAIN text : text[j][1] = k => j <= i
        IN  json_value(text[i][2])]

save_game(p) == json_dump(p)

load_game(d) ==
    IF d = NoFile THEN NoPet
    ELSE IF d = Corrupt THEN NoPet
    ELSE json_load(d)

delete_save(d) == NoFile

----------------------------------------------------------------------------
(* Input *)

\* input() raising EOFError or KeyboardInterrupt instead of returning a line
EOF == <<"^D">>

\* str.strip(): leading and trailing blanks removed
RECURSIVE lstrip(_)
lstrip(line) ==
    IF line # <<>> /\ Head(line) = " " THEN lstrip(Tail(line)) ELSE line

RECURSIVE rstrip(_)
rstrip(line) ==
    IF line # <<>> /\ line[Len(line)] = " "
    THEN rstrip(SubSeq(line, 1, Len(line) - 1))
    ELSE line

strip(line) == rstrip(lstrip(line))

\* str.lower(), on the letters the model types
lower(line) ==
    [i \in DOMAIN line |->
        CASE line[i] = "Y" -> "y"
          [] line[i] = "N" -> "n"
          [] line[i] = "S" -> "s"
          [] line[i] = "R" -> "r"
          [] line[i] = "P" -> "p"
          [] OTHER -> line[i]]

\* What the player may type at the action prompt
RawLines ==
    { <<>>, <<" ">>, <<"f">>, <<"p">>, <<"s">>, <<"c">>, <<"S">>, <<"q">>,
      <<"x">>, <<" ", "f", "e", "e", "d", " ">>, <<"s", "a", "v", "e">>,
      <<"q", "u", "a", "c", "k">>, <<"S", "l", "e", "e", "p">> }

\* Lines typed at one prompt_action call: one line, or a line after an empty
\* or unknown one, or the input ending at once
InputStreams ==
    {<<a>> : a \in RawLines \cup {EOF}}
        \cup {<<a, b>> : a \in {<<>>, <<"x">>, <<"q", "u", "a", "c", "k">>},
                           b \in RawLines \cup {EOF}}

\* prompt_action looking at the line as typed, blanks included
RECURSIVE prompt_action_unstripped(_)
prompt_action_unstripped(stream) ==
    IF stream = <<>> \/ Head(stream) = EOF THEN "q"
    ELSE LET raw == Head(stream)
         IN  IF raw = <<>> THEN prompt_action_unstripped(Tail(stream))
             ELSE IF raw[1] = "S" THEN "save"
             ELSE IF raw[1] \in {"f", "p", "s", "c", "S", "q"} THEN raw[1]
             ELSE prompt_action_unstripped(Tail(stream))

\* prompt_action: loops until a line starts with a known character; an input
\* that has run out raises EOFError like EOF
RECURSIVE prompt_action(_)
prompt_action(stream) ==
    IF stream = <<>> \/ Head(stream) = EOF THEN "q"
    ELSE LET raw == strip(Head(stream))
         IN  IF raw = <<>> THEN prompt_action(Tail(stream))
             ELSE IF raw[1] = "S" THEN "save"
             ELSE IF raw[1] \in {"f", "p", "s", "c", "S", "q"} THEN raw[1]
             ELSE prompt_action(Tail(stream))

\* every action token one prompt_action call can return
PromptResults == {prompt_action(stream) : stream \in InputStreams}

\* What the player may answer to "Save file found. Load it? [y/n]"
AnswerLines == { <<"y">>, <<" ", "Y">>, <<"n">>, <<>>, EOF }

\* What the player may type as the pet's name
NameLines == { <<>>, <<" ">>, <<"R", "e", "x">>, EOF }

----------------------------------------------------------------------------
(* Main game loop: run_game *)

\* the answer run_game acts on
load_answer(line) == IF line = EOF THEN <<"n">> ELSE lower(strip(line))

\* the name run_game gives the new pet
pet_name(line) ==
    IF line = EOF THEN DefaultName
    ELSE IF strip(line) = <<>> THEN DefaultName ELSE strip(line)

\* startup: the pet run_game enters the loop with
startup_pet(d, answer, nameLine) ==
    LET loaded == IF d # NoFile /\ load_answer(answer) = <<"y">>
                  THEN load_game(d) ELSE NoPet
    IN  IF loaded = NoPet THEN make_pet(pet_name(nameLine)) ELSE loaded

\* pet[key] raises KeyError for a key the dict does not have
has_key(p, key) == key \in DOMAIN p

\* history of the check_health_drain calls of the loop: q is the pet at the end
\* of an iteration, its hunger the one check_health_drain looked at
count_starved(q) == IF q.hunger = 0 THEN starved + 1 ELSE starved

\* while True
loop_runs_forever(p) == TRUE

\* while pet["alive"]
loop_runs(p) == p.alive

\* end_turn counting the turn whether or not the pet is alive
end_turn_counts_always(p) ==
    LET q == check_death(check_health_drain(decay_stats(p)))
    IN  [q EXCEPT !.turn = @ + 1]

\* end_turn draining health on the hunger the turn's decay has not reached yet
end_turn_drain_first(p) ==
    LET q == check_death(decay_stats(check_health_drain(p)))
    IN  IF q.alive THEN [q EXCEPT !.turn = @ + 1] ELSE q

\* end_turn checking death before the health drain
end_turn_death_first(p) ==
    LET q == check_health_drain(check_death(decay_stats(p)))
    IN  IF q.alive THEN [q EXCEPT !.turn = @ + 1] ELSE q

\* the end of a loop iteration: decay, drain, death check, turn counter
end_turn(p) ==
    LET q == check_death(check_health_drain(decay_stats(p)))
    IN  IF q.alive THEN [q EXCEPT !.turn = @ + 1] ELSE q

\* the action branch of a loop iteration
apply_action(action, p) ==
    CASE action = "f" -> apply_feed(p)
      [] action = "p" -> apply_play(p)
      [] action = "s" -> start_sleep(p)
      [] action = "c" -> p

Init ==
    /\ pc = "start"
    /\ pet = NoPet
    /\ disk \in {NoFile, Corrupt, EmptyObject, save_game(make_pet(DefaultName))}
    /\ last = "none"
    /\ used = 0
    /\ given = NoPet
    /\ calls = <<>>
    /\ ret = "none"
    /\ starved = 0

Startup ==
    /\ pc = "start"
    /\ \E answer \in AnswerLines, nameLine \in NameLines :
          /\ pet' = startup_pet(disk, answer, nameLine)
          /\ pc' = IF has_key(pet', "alive") THEN "loop" ELSE "crashed"
    /\ last' = "start"
    /\ UNCHANGED <<disk, used>>
    /\ UNCHANGED args
    /\ UNCHANGED starved

\* an iteration with the pet asleep: no prompt
SleepTurn ==
    /\ pc = "loop"
    /\ loop_runs(pet)
    /\ pet.sleeping
    /\ pet' = end_turn(process_sleep_turn(pet))
    /\ last' = "auto"
    /\ UNCHANGED <<pc, disk, used>>
    /\ UNCHANGED args
    /\ starved' = count_starved(pet')

\* an iteration where the player feeds, plays or starts a sleep
ActionTurn ==
    /\ pc = "loop"
    /\ loop_runs(pet)
    /\ ~pet.sleeping
    /\ used < MaxInputs
    /\ \E action \in PromptResults :
          /\ action \in {"f", "p", "s"}
          /\ pet' = end_turn(apply_action(action, pet))
          /\ last' = action
    /\ used' = used + 1
    /\ UNCHANGED <<pc, disk>>
    /\ UNCHANGED args
    /\ starved' = count_starved(pet')

\* an iteration where the player checks
CheckTurn ==
    /\ pc = "loop"
    /\ loop_runs(pet)
    /\ ~pet.sleeping
    /\ \E action \in PromptResults :
          /\ action = "c"
          /\ pet' = end_turn(apply_action(action, pet))
          /\ last' = action
    /\ UNCHANGED <<pc, disk, used>>
    /\ UNCHANGED args
    /\ starved' = count_starved(pet')

\* the save branch without its continue: the turn ends as after any action
SaveActionFallsThrough ==
    /\ pc = "loop"
    /\ loop_runs(pet)
    /\ ~pet.sleeping
    /\ used < MaxInputs
    /\ \E action \in PromptResults : action = "save"
    /\ disk' = save_game(pet)
    /\ pet' = end_turn(pet)
    /\ last' = "save"
    /\ used' = used + 1
    /\ UNCHANGED pc
    /\ UNCHANGED args
    /\ starved' = count_starved(pet')

\* an iteration where the player saves: continue, without the end of the turn
SaveAction ==
    /\ pc = "loop"
    /\ loop_runs(pet)
    /\ ~pet.sleeping
    /\ used < MaxInputs
    /\ \E action \in PromptResults : action = "save"
    /\ disk' = save_game(pet)
    /\ last' = "save"
    /\ used' = used + 1
    /\ UNCHANGED <<pc, pet>>
    /\ UNCHANGED args
    /\ UNCHANGED starved

\* the quit branch leaving without save_game
QuitActionNoSave ==
    /\ pc = "loop"
    /\ loop_runs(pet)
    /\ ~pet.sleeping
    /\ \E action \in PromptResults : action = "q"
    /\ pc' = "exited"
    /\ last' = "q"
    /\ UNCHANGED <<pet, disk, used>>
    /\ UNCHANGED args
    /\ UNCHANGED starved

\* an iteration where the player quits: save, then sys.exit(0)
QuitAction ==
    /\ pc = "loop"
    /\ loop_runs(pet)
    /\ ~pet.sleeping
    /\ \E action \in PromptResults : action = "q"
    /\ disk' = save_game(pet)
    /\ pc' = "exited"
    /\ last' = "q"
    /\ UNCHANGED <<pet, used>>
    /\ UNCHANGED args
    /\ UNCHANGED starved

\* the loop has ended: death screen, the save file removed
DeathScreen ==
    /\ pc = "loop"
    /\ ~loop_runs(pet)
    /\ disk' = delete_save(disk)
    /\ pc' = "done"
    /\ last' = "death"
    /\ UNCHANGED <<pet, used>>
    /\ UNCHANGED args
    /\ UNCHANGED starved

Next ==
    \/ Startup
    \/ SleepTurn
    \/ ActionTurn
    \/ CheckTurn
    \/ SaveAction
    \/ QuitAction
    \/ DeathScreen

Spec == Init /\ [][Next]_vars

\* run_game with a player who never chooses feed: the action iterations are
\* play and sleep ones
NoFeedTurn == ActionTurn /\ last' \in {"p", "s"}

NoFeedNext ==
    \/ Startup
    \/ SleepTurn
    \/ NoFeedTurn
    \/ CheckTurn
    \/ SaveAction
    \/ QuitAction
    \/ DeathScreen

NoFeedSpec == Init /\ [][NoFeedNext]_vars

----------------------------------------------------------------------------
(* The engine operations called directly, one at a time, on a fresh pet,   *)
(* in any order and also on a dead pet; EngineTurn is the turn-resolution  *)
(* protocol with no player action.                                         *)

EngineInit ==
    /\ pc = "engine"
    /\ pet = make_pet(DefaultName)
    /\ disk = NoFile
    /\ last = "make_pet"
    /\ used = 0
    /\ given = NoPet
    /\ calls = <<>>
    /\ ret = "none"
    /\ starved = 0

\* one direct call: op is the operation's name, q the pet it leaves
Call(op, q) ==
    /\ pc = "engine"
    /\ used < MaxOps
    /\ pet' = q
    /\ last' = op
    /\ used' = used + 1
    /\ UNCHANGED <<pc, disk>>
    /\ UNCHANGED args
    /\ UNCHANGED starved

CallDecayStats == Call("decay_stats", decay_stats(pet))

CallCheckHealthDrain == Call("check_health_drain", check_health_drain(pet))

CallCheckDeath == Call("check_death", check_death(pet))

CallApplyFeed == Call("apply_feed", apply_feed(pet))

CallApplyPlay == Call("apply_play", apply_play(pet))

CallStartSleep == Call("start_sleep", start_sleep(pet))

CallProcessSleepTurn == Call("process_sleep_turn", process_sleep_turn(pet))

EngineTurn ==
    /\ pc = "engine"
    /\ pet.alive
    /\ pet' = end_turn(IF pet.sleeping THEN process_sleep_turn(pet) ELSE pet)
    /\ last' = "turn"
    /\ UNCHANGED <<pc, disk, used>>
    /\ UNCHANGED args
    /\ UNCHANGED starved

EngineNext ==
    \/ CallDecayStats
    \/ CallCheckHealthDrain
    \/ CallCheckDeath
    \/ CallApplyFeed
    \/ CallApplyPlay
    \/ CallStartSleep
    \/ CallProcessSleepTurn
    \/ EngineTurn

\* the driver's behaviours together with the direct-call behaviours
EngineSpec == (Init \/ EngineInit) /\ [][Next \/ EngineNext]_vars

----------------------------------------------------------------------------
(* The functions called directly on given arguments, as the unit tests do: *)
(* a pet with given stats and up to MaxCalls calls of the engine functions *)
(* in any order (get_mood at any time), or the lines typed at one          *)
(* prompt_action call.                                                     *)

\* <<hunger, happiness, energy, health>> of the pets the calls start from
GivenStats ==
    { <<80, 80, 80, 100>>, <<100, 100, 100, 100>>, <<0, 0, 0, 0>>,
      <<3, 1, 2, 100>>, <<50, 50, 30, 100>>, <<24, 100, 100, 100>>,
      <<25, 50, 30, 100>>, <<49, 50, 30, 100>>, <<50, 49, 30, 100>>,
      <<50, 50, 29, 100>>, <<25, 25, 20, 100>>, <<100, 24, 100, 100>>,
      <<100, 100, 19, 100>>, <<80, 80, 40, 100>>, <<80, 90, 14, 100>>,
      <<75, 85, 26, 50>>, <<0, 80, 40, 10>>, <<5, 60, 99, 100>>,
      <<30, 30, 60, 5>>, <<71, 99, 75, 100>> }

\* a fresh pet with its stats set, as the tests set them
given_pet(stats) ==
    [make_pet(DefaultName) EXCEPT !.hunger = stats[1], !.happiness = stats[2],
                                  !.energy = stats[3], !.health = stats[4]]

FnInit ==
    /\ pc = "call"
    /\ \E stats \in GivenStats : pet = given_pet(stats)
    /\ given = pet
    /\ calls = <<>>
    /\ ret = "none"
    /\ disk = NoFile
    /\ last = "given"
    /\ used = 0
    /\ starved = 0

\* one direct call of a function that mutates the pet: q is the pet it leaves
Fn(name, q) ==
    /\ pc = "call"
    /\ used < MaxCalls
    /\ pet' = q
    /\ calls' = Append(calls, name)
    /\ last' = name
    /\ ret' = "none"
    /\ used' = used + 1
    /\ UNCHANGED <<pc, disk, given>>
    /\ UNCHANGED starved

FnDecayStats == Fn("decay_stats", decay_stats(pet))

FnCheckHealthDrain == Fn("check_health_drain", check_health_drain(pet))

FnCheckDeath == Fn("check_death", check_death(pet))

FnApplyFeed == Fn("apply_feed", apply_feed(pet))

FnApplyPlay == Fn("apply_play", apply_play(pet))

FnStartSleep == Fn("start_sleep", start_sleep(pet))

FnProcessSleepTurn == Fn("process_sleep_turn", process_sleep_turn(pet))

\* get_mood reads the pet and returns the mood
FnGetMood ==
    /\ pc = "call"
    /\ last # "get_mood"
    /\ ret' = get_mood(pet)
    /\ last' = "get_mood"
    /\ UNCHANGED <<pc, pet, disk, used, given, calls>>
    /\ UNCHANGED starved

PromptInit ==
    /\ pc = "prompt"
    /\ given \in InputStreams
    /\ pet = NoPet
    /\ calls = <<>>
    /\ ret = "none"
    /\ disk = NoFile
    /\ last = "given"
    /\ used = 0
    /\ starved = 0

\* one prompt_action call reading the lines of given
FnPromptAction ==
    /\ pc = "prompt"
    /\ ret' = prompt_action(given)
    /\ calls' = Append(calls, "prompt_action")
    /\ last' = "prompt_action"
    /\ pc' = "prompted"
    /\ UNCHANGED <<pet, disk, used, given>>
    /\ UNCHANGED starved

FnNext ==
    \/ FnDecayStats
    \/ FnCheckHealthDrain
    \/ FnCheckDeath
    \/ FnApplyFeed
    \/ FnApplyPlay
    \/ FnStartSleep
    \/ FnProcessSleepTurn
    \/ FnGetMood
    \/ FnPromptAction

FnSpec == (FnInit \/ PromptInit) /\ [][FnNext]_vars

\* get_mood on every pet that is awake: hunger, happiness and energy each
\* anywhere in 0..100
MoodInit ==
    /\ pc = "call"
    /\ \E h \in 0..100, hp \in 0..100, e \in 0..100 :
          pet = given_pet(<<h, hp, e, 100>>)
    /\ given = pet
    /\ calls = <<>>
    /\ ret = "none"
    /\ disk = NoFile
    /\ last = "given"
    /\ used = 0
    /\ starved = 0

MoodNext == FnGetMood

MoodSpec == MoodInit /\ [][MoodNext]_vars

----------------------------------------------------------------------------
(* Properties *)

HasPet == pc \in {"loop", "exited", "done", "engine", "call"}

\* the action tokens of the loop iterations that resolve a turn
Resolved == {"f", "p", "s", "c", "auto"}

\* C1: in every state reached by the driver or by direct calls of the engine
\* operations in any order, hunger, happiness, energy and health are in [0,100]
C1_StatsInRange ==
    HasPet =>
        /\ pet.hunger \in 0..100
        /\ pet.happiness \in 0..100
        /\ pet.energy \in 0..100
        /\ pet.health \in 0..100

\* a direct health drain on a pet whose health is 0 already: 0 - 10 is clamped
C1_Witness ==
    /\ pc = "engine"
    /\ last = "check_health_drain"
    /\ pet.hunger = 0
    /\ pet.health = 0

\* C2: the turn counter starts at 1, never decreases, grows by exactly 1 in
\* every resolved turn the pet survives, and does not grow in the turn in which
\* the pet dies nor once alive is false
C2_TurnStep ==
    (HasPet /\ HasPet') =>
        /\ pet'.turn >= pet.turn
        /\ (last' \in Resolved /\ pet'.alive) => pet'.turn = pet.turn + 1
        /\ (last' \in Resolved /\ ~pet'.alive) => pet'.turn = pet.turn
        /\ ~pet.alive => pet'.turn = pet.turn

C2_TurnCounter ==
    /\ []((HasPet /\ last = "start") => pet.turn = 1)
    /\ [][C2_TurnStep]_vars

\* the pet died in a check turn, its 25th, and the counter stayed at 25
C2_Witness ==
    /\ HasPet
    /\ last = "c"
    /\ ~pet.alive
    /\ pet.turn = 25

\* C3: at every turn boundary of the driver, alive is false exactly when
\* health is 0
C3_DeadIffNoHealth ==
    HasPet => (~pet.alive <=> pet.health = 0)

\* the turn boundary right after the drain that took the last health
C3_Witness ==
    /\ pc = "loop"
    /\ last \in Resolved
    /\ ~pet.alive
    /\ pet.health = 0

\* C4: once alive is false no step sets it back to true, and the driver changes
\* nothing of the pet any more: all it still does is show the death screen
C4_DeadStep ==
    (HasPet /\ ~pet.alive) =>
        /\ ~pet'.alive
        /\ pc # "engine" => (pet' = pet /\ last' = "death" /\ pc' = "done")

C4_DeadIsTerminal == [][C4_DeadStep]_vars

\* an engine operation was called on a dead pet
C4_Witness ==
    /\ pc = "engine"
    /\ last \in {"apply_feed", "process_sleep_turn", "start_sleep"}
    /\ ~pet.alive

\* C5: sleeping is true exactly when sleep_turns_remaining > 0, and the counter
\* is within [0,3]
C5_SleepCounter ==
    HasPet =>
        /\ pet.sleeping <=> pet.sleep_turns_remaining > 0
        /\ pet.sleep_turns_remaining \in 0..3

\* process_sleep_turn took the counter to 0 (or below) and cleared sleeping
C5_Witness ==
    /\ last \in {"process_sleep_turn", "auto"}
    /\ ~pet.sleeping
    /\ pet.sleep_turns_remaining = 0

\* C6: a sleep action is only taken by a pet that is awake and leaves the
\* counter at 3; every iteration that starts with the pet asleep is an automatic
\* sleep turn, with no prompt, that takes the counter down by one, and the pet is
\* awake again when the counter reaches 0: three sleep turns at most in a row
C6_SleepStep ==
    /\ last' = "s" => ~pet.sleeping
    /\ (pc = "loop" /\ pet.alive /\ pet.sleeping) =>
          /\ last' = "auto"
          /\ pet.sleep_turns_remaining \in 1..3
          /\ pet'.sleep_turns_remaining = pet.sleep_turns_remaining - 1
          /\ pet'.sleeping <=> pet.sleep_turns_remaining > 1
    /\ last' = "auto" => (pet.alive /\ pet.sleeping)

C6_SleepCycle ==
    /\ [](last = "s" => (pet.sleeping /\ pet.sleep_turns_remaining = 3))
    /\ [][C6_SleepStep]_vars

\* the pet has just woken up, alive, from the third sleep turn
C6_Witness ==
    /\ pc = "loop"
    /\ last = "auto"
    /\ pet.alive
    /\ ~pet.sleeping
    /\ pet.sleep_turns_remaining = 0

\* C7: a save action leaves every field of the pet as it was, the turn
\* counter included, and the driver stays in its loop
C7_SaveStep ==
    last' = "save" =>
        /\ pet' = pet
        /\ \A i \in DOMAIN Keys : pet'[Keys[i]] = pet[Keys[i]]
        /\ pc' = pc

C7_SaveKeepsPet == [][C7_SaveStep]_vars

\* a save of a pet that has played some turns and is hungry enough for the
\* end of a turn to show
C7_Witness ==
    /\ last = "save"
    /\ pet.turn > 1
    /\ pet.hunger > 0
    /\ disk = save_game(pet)

\* C8: a quit action writes the pet as it is at the prompt, unchanged, and ends
\* the session: nothing runs after it
C8_QuitStep ==
    /\ last' = "q" =>
          /\ pet' = pet
          /\ disk' = save_game(pet)
          /\ load_game(disk') = pet
          /\ pc' = "exited"
    /\ pc # "exited"

C8_QuitPersists == [][C8_QuitStep]_vars

\* the session was quit after some turns and after an earlier save of another
\* state of the pet
C8_Witness ==
    /\ pc = "exited"
    /\ used > 0
    /\ pet.turn > 2
    /\ load_game(disk) = pet

\* C9: a resolved turn that brings health to 0 sets alive to false in that
\* turn and leaves the turn counter as it was before the turn
C9_FatalStep ==
    (HasPet /\ HasPet' /\ pet.health > 0 /\ pet'.health = 0) =>
        /\ pet.alive
        /\ last' \in Resolved
        /\ ~pet'.alive
        /\ pet'.turn = pet.turn

C9_DeathInSameTurn == [][C9_FatalStep]_vars

\* the pet starved to death while asleep
C9_Witness ==
    /\ HasPet
    /\ last = "auto"
    /\ pet.health = 0
    /\ ~pet.alive

\* C10 as stated: a fresh pet after one feed turn has hunger 100, happiness 78,
\* energy 76, health 100, turn 2 and is alive
C10_AsStated ==
    (HasPet /\ last = "f" /\ pet.turn = 2) =>
        /\ pet.hunger = 100
        /\ pet.happiness = 78
        /\ pet.energy = 76
        /\ pet.health = 100
        /\ pet.alive

\* C10, amended: a fresh pet after one feed turn has hunger 95 (80 + 30 clamped
\* to 100, then the turn's decay of 5), happiness 78, energy 76, health 100,
\* turn 2 and is alive
C10_FeedFirstTurn ==
    (HasPet /\ last = "f" /\ pet.turn = 2) =>
        /\ pet.hunger = 95
        /\ pet.happiness = 78
        /\ pet.energy = 76
        /\ pet.health = 100
        /\ pet.alive

\* the first resolved turn was a feed
C10_Witness ==
    /\ HasPet
    /\ last = "f"
    /\ pet.turn = 2
    /\ used = 1

\* C11: in every resolved turn the health drain looks at the hunger left after
\* the turn's action and decay: health goes down by 10, not below 0, exactly
\* when that hunger is 0, and stays as it is when that hunger is above 0; a feed
\* in a turn that starts with hunger 0 keeps health as it is
C11_DrainStep ==
    (pc = "loop" /\ last' \in Resolved) =>
        /\ pet'.hunger = 0 =>
              /\ pet'.health = (IF pet.health >= 10 THEN pet.health - 10 ELSE 0)
              /\ pet'.health < pet.health
        /\ pet'.hunger > 0 => pet'.health = pet.health
        /\ (last' = "f" /\ pet.hunger = 0) => pet'.health = pet.health

C11_DrainAfterDecay == [][C11_DrainStep]_vars

\* a starving pet, already drained, was fed from hunger 0 (0 + 30 - 5 = 25)
C11_Witness ==
    /\ pc = "loop"
    /\ last = "f"
    /\ pet.hunger = 25
    /\ pet.health < 100
    /\ pet.alive

\* C12: get_mood returns "sleeping" whenever sleeping is true, whatever the
\* stats; otherwise "happy" exactly when hunger >= 50, happiness >= 50 and
\* energy >= 30; otherwise "sad" exactly when hunger < 25 or happiness < 25 or
\* energy < 20; otherwise "neutral"; and it changes no field of the pet
C12_IsHappy(p) == p.hunger >= 50 /\ p.happiness >= 50 /\ p.energy >= 30

C12_IsSad(p) == p.hunger < 25 \/ p.happiness < 25 \/ p.energy < 20

C12_Stats(p, h, hp, e) == p.hunger = h /\ p.happiness = hp /\ p.energy = e

C12_MoodReturned ==
    last = "get_mood" =>
        /\ ret \in {"sleeping", "happy", "sad", "neutral"}
        /\ pet.sleeping => ret = "sleeping"
        /\ ~pet.sleeping =>
              /\ ret = "happy" <=> C12_IsHappy(pet)
              /\ ~C12_IsHappy(pet) => (ret = "sad" <=> C12_IsSad(pet))
              /\ ret = "neutral" <=> (~C12_IsHappy(pet) /\ ~C12_IsSad(pet))
              /\ C12_Stats(pet, 50, 50, 30) => ret = "happy"
              /\ C12_Stats(pet, 24, 100, 100) => ret = "sad"
              /\ C12_Stats(pet, 25, 50, 30) => ret = "neutral"

C12_GetMood ==
    /\ []C12_MoodReturned
    /\ [][last' = "get_mood" => pet' = pet]_vars

\* the mood of an awake pet with hunger 25, happiness 50, energy 30 was asked
C12_Witness ==
    /\ last = "get_mood"
    /\ ~pet.sleeping
    /\ C12_Stats(pet, 25, 50, 30)
    /\ ret = "neutral"

\* C13: decay_stats sets hunger to max(0, hunger - 5), energy to
\* max(0, energy - 4), happiness to max(0, happiness - 2) and leaves health,
\* turn, alive, sleeping and sleep_turns_remaining unchanged; three decays in a
\* row from hunger = energy = happiness = 80 give hunger 65, energy 68,
\* happiness 74
C13_Floor(n) == IF n < 0 THEN 0 ELSE n

C13_DecayStep ==
    last' = "decay_stats" =>
        /\ pet'.hunger = C13_Floor(pet.hunger - 5)
        /\ pet'.energy = C13_Floor(pet.energy - 4)
        /\ pet'.happiness = C13_Floor(pet.happiness - 2)
        /\ pet'.health = pet.health
        /\ pet'.turn = pet.turn
        /\ pet'.alive = pet.alive
        /\ pet'.sleeping = pet.sleeping
        /\ pet'.sleep_turns_remaining = pet.sleep_turns_remaining
        /\ pet'.name = pet.name

C13_ThreeDecays ==
    (/\ pc = "call"
     /\ calls = <<"decay_stats", "decay_stats", "decay_stats">>
     /\ C12_Stats(given, 80, 80, 80)) =>
        (pet.hunger = 65 /\ pet.energy = 68 /\ pet.happiness = 74)

C13_DecayStats ==
    /\ []C13_ThreeDecays
    /\ [][C13_DecayStep]_vars

\* a decay of a pet with hunger 3, happiness 1 and energy 2, floored at 0, and
\* of a pet whose health is not 100
C13_Witness ==
    /\ pc = "call"
    /\ last = "decay_stats"
    /\ Len(calls) = 1
    /\ C12_Stats(given, 3, 1, 2)
    /\ C12_Stats(pet, 0, 0, 0)

\* C14: apply_feed sets hunger to min(100, hunger + 30) and leaves every other
\* field unchanged
C14_FeedStep ==
    last' = "apply_feed" =>
        /\ pet'.hunger = (IF pet.hunger + 30 > 100 THEN 100 ELSE pet.hunger + 30)
        /\ pet'.happiness = pet.happiness
        /\ pet'.energy = pet.energy
        /\ pet'.health = pet.health
        /\ pet'.turn = pet.turn
        /\ pet'.alive = pet.alive
        /\ pet'.sleeping = pet.sleeping
        /\ pet'.sleep_turns_remaining = pet.sleep_turns_remaining
        /\ pet'.name = pet.name

C14_ApplyFeed == [][C14_FeedStep]_vars

\* a feed capped at 100, of a pet that is asleep
C14_Witness ==
    /\ pc = "call"
    /\ last = "apply_feed"
    /\ pet.hunger = 100
    /\ given.hunger \in 71..99
    /\ pet.sleeping

\* C15: apply_play sets happiness to min(100, happiness + 20) and energy to
\* max(0, energy - 15) from every state, energy below 15 included, and leaves
\* hunger and health unchanged
C15_PlayStep ==
    last' = "apply_play" =>
        /\ pet'.happiness =
              (IF pet.happiness + 20 > 100 THEN 100 ELSE pet.happiness + 20)
        /\ pet'.energy = (IF pet.energy < 15 THEN 0 ELSE pet.energy - 15)
        /\ pet'.hunger = pet.hunger
        /\ pet'.health = pet.health

C15_ApplyPlay == [][C15_PlayStep]_vars

\* a play with energy 14: energy ends at 0, happiness capped at 100
C15_Witness ==
    /\ pc = "call"
    /\ calls = <<"apply_play">>
    /\ given.energy = 14
    /\ pet.energy = 0
    /\ pet.happiness = 100

\* C16: start_sleep followed by exactly three process_sleep_turn calls ends
\* with sleeping false, the counter at 0 and energy min(100, e + 75), e being
\* the energy at the start (40 gives 100); after one or two of the calls the pet
\* still sleeps, with the counter at 2 or 1
C16_Slept(n) ==
    /\ pc = "call"
    /\ Len(calls) = n + 1
    /\ calls[1] = "start_sleep"
    /\ \A i \in 2..(n + 1) : calls[i] = "process_sleep_turn"

C16_SleepThrough ==
    /\ C16_Slept(1) => (pet.sleeping /\ pet.sleep_turns_remaining = 2)
    /\ C16_Slept(2) => (pet.sleeping /\ pet.sleep_turns_remaining = 1)
    /\ C16_Slept(3) =>
          /\ ~pet.sleeping
          /\ pet.sleep_turns_remaining = 0
          /\ pet.energy =
                (IF given.energy + 75 > 100 THEN 100 ELSE given.energy + 75)
          /\ given.energy = 40 => pet.energy = 100

\* the whole cycle from energy 40
C16_Witness ==
    /\ C16_Slept(3)
    /\ given.energy = 40
    /\ pet.energy = 100
    /\ ~pet.sleeping

\* C17: saving a pet and loading the file gives a pet equal to the saved one
\* field for field, for the nine fields and no others; after a save or a quit
\* the file on disk loads as the pet in play
C17_RoundTrip ==
    /\ HasPet =>
          LET loaded == load_game(save_game(pet))
          IN  /\ DOMAIN loaded = {Keys[i] : i \in DOMAIN Keys}
              /\ \A i \in DOMAIN Keys : loaded[Keys[i]] = pet[Keys[i]]
              /\ loaded = pet
    /\ (pc \in {"loop", "exited"} /\ last \in {"save", "q"}) =>
          \A i \in DOMAIN Keys : load_game(disk)[Keys[i]] = pet[Keys[i]]

\* a pet named by the player, saved after some turns
C17_Witness ==
    /\ pc = "loop"
    /\ last = "save"
    /\ pet.name = <<"R", "e", "x">>
    /\ pet.turn > 1
    /\ pet.alive
    /\ load_game(disk) = pet

\* the file holds a pet record: JSON text with the nine fields
C18_PetRecord(d) ==
    /\ d \notin {NoFile, Corrupt}
    /\ {Keys[i] : i \in DOMAIN Keys} \subseteq DOMAIN json_load(d)

\* C18 as stated: with no save file, or one that is unreadable, corrupt or not
\* a pet record, load_game gives None and run_game enters its loop with a fresh
\* pet holding the initial values
C18_AsStated ==
    (last = "start" /\ ~C18_PetRecord(disk)) =>
        /\ load_game(disk) = NoPet
        /\ pc = "loop"
        /\ \E line \in NameLines : pet = make_pet(pet_name(line))

\* the six action tokens run_game dispatches on
C19_Actions == {"f", "p", "s", "c", "save", "q"}

\* what a typed line denotes: a menu letter or a menu word as the menu prints
\* it, blanks around it aside; "none" for anything else
C19_Meaning(line) ==
    LET raw == strip(line)
    IN  CASE raw \in {<<"f">>, <<"f", "e", "e", "d">>} -> "f"
          [] raw \in {<<"p">>, <<"p", "l", "a", "y">>} -> "p"
          [] raw \in {<<"s">>, <<"s", "l", "e", "e", "p">>} -> "s"
          [] raw \in {<<"c">>, <<"c", "h", "e", "c", "k">>} -> "c"
          [] raw \in {<<"S">>, <<"S", "a", "v", "e">>} -> "save"
          [] raw \in {<<"q">>, <<"q", "u", "i", "t">>} -> "q"
          [] OTHER -> "none"

\* the first line of the input that is not passed over, 0 if all of them are
C19_First(Skipped(_)) ==
    IF \A i \in DOMAIN given : Skipped(given[i]) THEN 0
    ELSE CHOOSE i \in DOMAIN given :
            /\ ~Skipped(given[i])
            /\ \A j \in 1..(i - 1) : Skipped(given[j])

C19_Meaningless(line) == line # EOF /\ C19_Meaning(line) = "none"

\* C19 as stated: a prompt_action call returns one of the six actions, and a
\* line that denotes none of them is asked again: the call answers with the
\* first line that denotes an action
C19_AsStated ==
    pc = "prompted" =>
        /\ ret \in C19_Actions
        /\ LET i == C19_First(C19_Meaningless)
           IN  ret = IF i = 0 \/ given[i] = EOF THEN "q"
                     ELSE C19_Meaning(given[i])

\* a line prompt_action asks again for: empty once stripped, or starting with a
\* character that is not one of the six
C19_Rejected(line) ==
    /\ line # EOF
    /\ \/ strip(line) = <<>>
       \/ strip(line)[1] \notin {"f", "p", "s", "c", "S", "q"}

C19_PromptStep ==
    last' = "prompt_action" => (pet' = pet /\ disk' = disk /\ used' = used)

\* C19, amended: a prompt_action call returns one of the six actions; a line
\* is asked again exactly when it is empty once stripped or its first character
\* is not one of f, p, s, c, S, q; the first line not asked again decides by
\* its first character alone (S gives save), whatever follows that character;
\* the call itself runs no engine operation and resolves no turn
C19_PromptAction ==
    /\ [](pc = "prompted" =>
            /\ ret \in C19_Actions
            /\ LET i == C19_First(C19_Rejected)
               IN  ret = IF i = 0 \/ given[i] = EOF THEN "q"
                         ELSE IF strip(given[i])[1] = "S" THEN "save"
                         ELSE strip(given[i])[1])
    /\ [][C19_PromptStep]_vars

\* an unknown line was asked again and the word typed next was taken by its
\* first letter
C19_Witness ==
    /\ pc = "prompted"
    /\ given = << <<"x">>, <<"s", "a", "v", "e">> >>
    /\ ret = "s"

C20_SleepStep ==
    last' = "start_sleep" =>
        /\ pet'.sleeping
        /\ pet'.sleep_turns_remaining = 3
        /\ \A i \in DOMAIN Keys :
              Keys[i] \notin {"sleeping", "sleep_turns_remaining"} =>
                  pet'[Keys[i]] = pet[Keys[i]]
        /\ last = "start_sleep" => pet' = pet

\* C20: start_sleep gives sleeping true and the counter 3 from every state, a
\* pet asleep with the counter at 1 or 2 included, and changes no other field;
\* a second start_sleep right after the first changes nothing
C20_StartSleep == [][C20_SleepStep]_vars

\* a sleep restarted with one turn of it slept and the counter at 2
C20_Witness ==
    /\ pc = "call"
    /\ calls = <<"start_sleep", "process_sleep_turn", "start_sleep">>
    /\ pet.sleeping
    /\ pet.sleep_turns_remaining = 3
    /\ pet.energy > given.energy

\* a check_health_drain call directly after a check_health_drain call, the pet
\* starving at both
C21_SecondCall ==
    /\ last = "check_health_drain"
    /\ last' = "check_health_drain"
    /\ pet.hunger = 0

\* C21 as stated: a second check_health_drain call with hunger still 0 leaves
\* the pet as the first call left it
C21_AsStated == [][C21_SecondCall => pet' = pet]_vars

C21_DrainAgainStep ==
    C21_SecondCall =>
        /\ pet'.health = (IF pet.health >= 10 THEN pet.health - 10 ELSE 0)
        /\ \A i \in DOMAIN Keys :
              Keys[i] # "health" => pet'[Keys[i]] = pet[Keys[i]]
        /\ (pet' = pet) <=> (pet.health = 0)

\* C21, amended: check_health_drain is not idempotent while hunger stays 0:
\* every further call takes another 10 from health, down to 0, and changes no
\* other field; a second call leaves the pet as the first left it only once
\* health is 0
C21_DrainRepeats == [][C21_DrainAgainStep]_vars

\* two drains in a row on a pet starved by a decay: health 100, 90, 80
C21_Witness ==
    /\ pc = "call"
    /\ calls = <<"decay_stats", "check_health_drain", "check_health_drain">>
    /\ given.health = 100
    /\ pet.hunger = 0
    /\ pet.health = 80

C22_HealthStep ==
    (HasPet /\ HasPet') =>
        /\ pet'.health <= pet.health
        /\ pet'.health # pet.health =>
              /\ last' \in Resolved
              /\ pet'.hunger = 0
              /\ pet'.health = pet.health - 10
        /\ last' \in {"f", "p", "s", "c"} =>
              /\ apply_action(last', pet).health = pet.health
              /\ decay_stats(apply_action(last', pet)).health = pet.health
        /\ last' = "auto" =>
              /\ process_sleep_turn(pet).health = pet.health
              /\ decay_stats(process_sleep_turn(pet)).health = pet.health

\* C22: in the driver health never grows; it changes only in the health drain
\* of a turn, by 10, and is always 100 minus 10 times the number of resolved
\* turns that ended with hunger 0; feed, play and sleep give no health back
C22_HealthNeverGrows ==
    /\ [](HasPet => pet.health = 100 - 10 * starved)
    /\ [][C22_HealthStep]_vars

\* a pet fed after a turn of starving: hunger is back, the 10 health are not
C22_Witness ==
    /\ pc = "loop"
    /\ last = "f"
    /\ starved = 1
    /\ pet.hunger = 25
    /\ pet.health = 90

\* turns resolved so far: the counter counts the turns survived, from 1
C23_ResolvedTurns == IF pet.alive THEN pet.turn - 1 ELSE pet.turn

C23_Max0(n) == IF n < 0 THEN 0 ELSE n

C23_NoFeedStep ==
    (HasPet /\ HasPet') =>
        /\ (pet.alive /\ ~pet'.alive) => (pet.turn = 25 /\ pet'.turn = 25)
        /\ (pet.alive /\ pet.turn = 25 /\ last' \in Resolved) => ~pet'.alive

\* C23: a fresh pet that is never fed (play, sleep and check turns, saves in
\* between) dies in its 25th resolved turn with the turn counter at 25, not
\* earlier and not later: hunger falls by 5 a turn to 0 in the 16th, health by
\* 10 a turn from the 16th on
C23_DiesInTurn25 ==
    /\ [](HasPet =>
            /\ pet.turn <= 25
            /\ pet.alive <=> C23_ResolvedTurns < 25
            /\ ~pet.alive => (pet.turn = 25 /\ starved = 10)
            /\ pet.hunger = C23_Max0(80 - 5 * C23_ResolvedTurns)
            /\ pet.health = 100 - 10 * C23_Max0(C23_ResolvedTurns - 15))
    /\ [][C23_NoFeedStep]_vars

\* a pet saved in its 11th turn that starved in a play turn, its 25th
C23_Witness ==
    /\ pc = "loop"
    /\ last = "p"
    /\ used = 2
    /\ disk \notin {NoFile, Corrupt, EmptyObject}
    /\ load_game(disk).turn = 11
    /\ ~pet.alive
    /\ pet.turn = 25

C24_WriteStep ==
    last' \in {"save", "q"} =>
        /\ pet.alive /\ ~pet.sleeping /\ pet.sleep_turns_remaining = 0
        /\ disk' = save_game(pet)
        /\ LET snapshot == load_game(disk')
           IN  /\ snapshot.alive
               /\ ~snapshot.sleeping
               /\ snapshot.sleep_turns_remaining = 0

C24_AtPrompt(p) == p.alive /\ ~p.sleeping /\ p.sleep_turns_remaining = 0

\* C24: every save file run_game writes, by a save or a quit, holds a pet that
\* is alive, not sleeping and has the sleep counter at 0; the file changes only
\* in a save or quit and in the death screen's delete
C24_SnapshotAwake ==
    /\ [][C24_WriteStep]_vars
    /\ [][disk' # disk => last' \in {"save", "q", "death"}]_vars
    /\ []((HasPet /\ disk \notin {NoFile, Corrupt, EmptyObject}) =>
            C24_AtPrompt(load_game(disk)))

\* quit right after a whole sleep cycle: the pet woke up in its fourth turn
C24_Witness ==
    /\ pc = "exited"
    /\ last = "q"
    /\ used = 1
    /\ pet.turn = 5
    /\ pet.energy > 80
    /\ load_game(disk) = pet

\* the mood rules with the sad rule tested before the happy one
C25_SadFirst(p) ==
    IF p.sleeping THEN "sleeping"
    ELSE IF p.hunger < 25 \/ p.happiness < 25 \/ p.energy < 20 THEN "sad"
    ELSE IF p.hunger >= 50 /\ p.happiness >= 50 /\ p.energy >= 30 THEN "happy"
    ELSE "neutral"

\* C25: for every hunger, happiness and energy in 0..100 of a pet that is
\* awake, the happy condition and the sad condition do not hold together, and
\* get_mood returns what it would with the two rules tested in the other order
C25_RulesDisjoint ==
    (pc = "call" /\ ~pet.sleeping) =>
        /\ ~( /\ (pet.hunger >= 50 /\ pet.happiness >= 50 /\ pet.energy >= 30)
              /\ (pet.hunger < 25 \/ pet.happiness < 25 \/ pet.energy < 20) )
        /\ get_mood(pet) = C25_SadFirst(pet)
        /\ last = "get_mood" => ret = C25_SadFirst(pet)

\* the mood of a pet with two stats high and the third just under the sad
\* threshold was asked
C25_Witness ==
    /\ pc = "call"
    /\ last = "get_mood"
    /\ ~pet.sleeping
    /\ pet.hunger = 100
    /\ pet.happiness = 100
    /\ pet.energy = 19
    /\ ret = "sad"

====
